---------------------------- MODULE Spec2Model ----------------------------
(***************************************************************************)
(* A model of the project-grants map front-end: the beneficiary tier       *)
(* colour, the connection generator of MapComponent, the GlobalStats       *)
(* aggregation, the frame-rate throttle of the canvas loops and the        *)
(* selection / visibility / animation logic of ConnectionLines.            *)
(*                                                                         *)
(* Every component is an independent React component; each gets its own    *)
(* specification (SpecTier, SpecMap, SpecStats, SpecFrame, SpecSelect,     *)
(* SpecLines) over its own variables, the other variables staying idle.    *)
(***************************************************************************)
EXTENDS Integers, Sequences, FiniteSets, TLC

VARIABLES
  \* getBeneficiaryColor: the copy that was called, its argument, its result
  tierCopy, tierInput, tierColor,
  \* MapComponent: props, media query, state and the pending effect
  projects, isMobile, dynamicConnections, connEffectPending,
  \* GlobalStats: the projects prop and the memoised statistics
  statsProjects, stats,
  \* canvas loops: which loop, the closure of its effect (isMobile,
  \* isZooming || isPanning, lastFrameTime, frameSkipCounter), the clock,
  \* whether a frame is requested, and what the last callback did
  frameLoop, frameMobile, frameBusy, lastFrameTime, frameSkipCounter,
  frameNow, frameScheduled, frameResult,
  \* history: lastFrameTime as the last callback found it, and the time of
  \* the latest drawn frame before the last callback (-1: none)
  frameLastBefore, prevDrawnAt,
  \* ConnectionLines: props and the result of its useMemo
  connections, maxConnections, limitedConnections, connectionPaths,
  \* ConnectionLines: mounted or not, the animationSpeed prop, the state
  \* (isVisible, the two phases), the two refs (0: null), whether the last
  \* run of the animation effect returned a cleanup, the passive effects
  \* not yet run, and what the last render returned
  linesMounted, animationSpeed, isVisible, animationPhase, pulsePhase,
  animationIntervalRef, pulseIntervalRef, animCleanup,
  visEffectPending, animEffectPending, linesRendered,
  \* the Leaflet map: its bounds and whether checkVisibility listens to
  \* moveend / zoomend; the browser: the intervals that are set
  mapBounds, checkSubscribed, activeIntervals,
  \* one call of generateCurvedPath: its arguments, whether it has returned,
  \* the value of its local randomFactor and the path it returned
  curveFrom, curveTo, curveSteps, curveCalled, curveRandomFactor, curvePath,
  \* one render of ConnectionGroup: the version of the component, the
  \* number of path points, the index and colorScheme props, the loop
  \* counter i, the index ranges of the segments pushed so far, the colour
  \* of the last segment pushed, and whether the loop is over
  groupVersion, groupLength, groupIndex, groupScheme, groupI, groupSegments,
  groupColor, groupReturned

tierVars == <<tierCopy, tierInput, tierColor>>
mapVars  == <<projects, isMobile, dynamicConnections, connEffectPending>>
statsVars == <<statsProjects, stats>>
frameVars == <<frameLoop, frameMobile, frameBusy, lastFrameTime, frameSkipCounter,
               frameNow, frameScheduled, frameResult, frameLastBefore, prevDrawnAt>>
selVars == <<connections, maxConnections, limitedConnections, connectionPaths>>
linesVars == <<linesMounted, animationSpeed, isVisible, animationPhase, pulsePhase,
               animationIntervalRef, pulseIntervalRef, animCleanup,
               visEffectPending, animEffectPending, linesRendered,
               mapBounds, checkSubscribed, activeIntervals>>
curveVars == <<curveFrom, curveTo, curveSteps, curveCalled, curveRandomFactor,
               curvePath>>
groupVars == <<groupVersion, groupLength, groupIndex, groupScheme, groupI,
               groupSegments, groupColor, groupReturned>>
vars == <<tierVars, mapVars, statsVars, frameVars, selVars, linesVars, curveVars,
          groupVars>>

-----------------------------------------------------------------------------
(* Generic helpers                                                         *)

Min(a, b) == IF a < b THEN a ELSE b
Max(a, b) == IF a > b THEN a ELSE b

\* Array.prototype.slice(0, n)
Take(s, n) == SubSeq(s, 1, Min(n, Len(s)))

\* the array without its element at (1-based) position r: splice(r, 1)
RemoveAt(s, r) == SubSeq(s, 1, r - 1) \o SubSeq(s, r + 1, Len(s))

Range(s) == {s[i] : i \in DOMAIN s}

-----------------------------------------------------------------------------
(* Beneficiary tier colour: three textual copies of getBeneficiaryColor    *)

\* largest indirect-beneficiary count tried
MaxBeneficiaries == 1002

\* mutant: the first threshold compared with < instead of <=
getBeneficiaryColor_lt(indirect_beneficiaries) ==
  IF indirect_beneficiaries < 100 THEN "#FF00FF"
  ELSE IF indirect_beneficiaries <= 500 THEN "#0074D9"
  ELSE IF indirect_beneficiaries >= 1000 THEN "#FF4136"
  ELSE "#FFDC00"

\* particle-effect.tsx
getBeneficiaryColor(indirect_beneficiaries) ==
  IF indirect_beneficiaries <= 100 THEN "#FF00FF"
  ELSE IF indirect_beneficiaries <= 500 THEN "#0074D9"
  ELSE IF indirect_beneficiaries >= 1000 THEN "#FF4136"
  ELSE "#FFDC00"

\* the copy next to ActivityNode (marker icon and badge colour)
getBeneficiaryColor_ActivityNode(indirect_beneficiaries) ==
  IF indirect_beneficiaries <= 100 THEN "#FF00FF"
  ELSE IF indirect_beneficiaries <= 500 THEN "#0074D9"
  ELSE IF indirect_beneficiaries >= 1000 THEN "#FF4136"
  ELSE "#FFDC00"

\* the copy of the optimised particle effect
getBeneficiaryColor_Optimised(indirect_beneficiaries) ==
  IF indirect_beneficiaries <= 100 THEN "#FF00FF"
  ELSE IF indirect_beneficiaries <= 500 THEN "#0074D9"
  ELSE IF indirect_beneficiaries >= 1000 THEN "#FF4136"
  ELSE "#FFDC00"

\* a project (or a connection's source project) with some beneficiary count
TierInit ==
  /\ tierCopy = "none"
  /\ tierInput \in 0..MaxBeneficiaries
  /\ tierColor = "none"

\* createParticles colours a particle by its connection's source project
ParticleColor ==
  /\ tierCopy' = "particle"
  /\ tierColor' = getBeneficiaryColor(tierInput)
  /\ UNCHANGED tierInput

\* getMarkerIcon / the popup badge colour a marker
MarkerColor ==
  /\ tierCopy' = "marker"
  /\ tierColor' = getBeneficiaryColor_ActivityNode(tierInput)
  /\ UNCHANGED tierInput

\* createParticles of the optimised particle effect
OptimisedParticleColor ==
  /\ tierCopy' = "optimised"
  /\ tierColor' = getBeneficiaryColor_Optimised(tierInput)
  /\ UNCHANGED tierInput

TierIdle ==
  /\ tierCopy = "none"
  /\ tierInput = 0
  /\ tierColor = "none"

-----------------------------------------------------------------------------
(* MapComponent: the effect that generates dynamicConnections              *)

\* longest project list enumerated with every title assignment
MaxProjects == 3
\* how far the long project lists exceed the mobile limit
MaxExtra == 1
\* projects.slice(0, Math.min(15, projects.length)) on mobile
MobileProjectLimit == 15

Titles == {"A", "B", "C"}

\* a project record; coordinates and beneficiaries follow its position
Project(i, t) ==
  [project_title |-> t, latitude |-> 10 * i, longitude |-> 0 - 10 * i,
   indirect_beneficiaries |-> 100 * i]

\* every list of at most MaxProjects projects over Titles
SmallProjectLists ==
  UNION {{[i \in 1..n |-> Project(i, f[i])] : f \in [1..n -> Titles]} :
          n \in 0..MaxProjects}

\* one project titled "B" among n - 1 titled "A": the "B" project has more
\* candidates than it may connect to
OneOther(n, p) == [i \in 1..n |-> Project(i, IF i = p THEN "B" ELSE "A")]

MediumProjectLists ==
  UNION {{OneOther(n, p) : p \in {1, n}} :
          n \in (MaxProjects + 1)..(MaxProjects + 2)}

\* lists reaching past the mobile limit, the "B" project beyond it
LargeProjectLists ==
  UNION {{OneOther(n, p) : p \in (MobileProjectLimit + 1)..n} :
          n \in (MobileProjectLimit + 1)..(MobileProjectLimit + MaxExtra)}

ProjectLists == SmallProjectLists \cup MediumProjectLists \cup LargeProjectLists

\* mutant: one connection more per project
maxConnectionsPerProject_more(mobile) == IF mobile THEN 3 ELSE 4

\* const maxConnectionsPerProject = isMobile ? 2 : 3
maxConnectionsPerProject(mobile) == IF mobile THEN 2 ELSE 3

\* mutant: the mobile limit is not applied
projectsToProcess_all(ps, mobile) == ps

\* isMobile ? projects.slice(0, Math.min(15, projects.length)) : projects
projectsToProcess(ps, mobile) ==
  IF mobile THEN SubSeq(ps, 1, Min(MobileProjectLimit, Len(ps))) ELSE ps

\* mutant: the source project is not filtered out
RECURSIVE availableTargets_self(_, _, _)
availableTargets_self(ptp, i, j) ==
  IF j > Len(ptp) THEN <<>>
  ELSE <<j>> \o availableTargets_self(ptp, i, j + 1)

\* projectsToProcess.filter(p => p.project_title !== project.project_title),
\* as the positions of the kept records, from position j on
RECURSIVE availableTargets(_, _, _)
availableTargets(ptp, i, j) ==
  IF j > Len(ptp) THEN <<>>
  ELSE (IF ptp[j].project_title # ptp[i].project_title THEN <<j>> ELSE <<>>)
       \o availableTargets(ptp, i, j + 1)

\* mutant: the picked target stays among the candidates
RECURSIVE RandomPicks_keep(_, _)
RandomPicks_keep(avail, n) ==
  IF n = 0 \/ Len(avail) = 0 THEN {<<>>}
  ELSE UNION {{<<avail[r]>> \o rest : rest \in RandomPicks_keep(avail, n - 1)} :
                r \in 1..Len(avail)}

\* the for loop: n times, unless the candidates run out, pick
\* randomIndex = Math.floor(Math.random() * availableTargets.length) and
\* splice the target out; every outcome of the random choices
RECURSIVE RandomPicks(_, _)
RandomPicks(avail, n) ==
  IF n = 0 \/ Len(avail) = 0 THEN {<<>>}
  ELSE UNION {{<<avail[r]>> \o rest : rest \in RandomPicks(RemoveAt(avail, r), n - 1)} :
                r \in 1..Len(avail)}

\* newConnections.push({from, to, from_project_indirect_beneficiaries});
\* src and tgt record which records were paired (not program state)
Connection(ptp, i, j) ==
  [from |-> <<ptp[i].latitude, ptp[i].longitude>>,
   to |-> <<ptp[j].latitude, ptp[j].longitude>>,
   from_project_indirect_beneficiaries |-> ptp[i].indirect_beneficiaries,
   src |-> i, tgt |-> j]

\* the connections one source project can contribute
ProjectConnections(ptp, i, k) ==
  LET targets == availableTargets(ptp, i, 1)
      connectionsToMake == Min(k, Len(targets))
  IN {[n \in 1..Len(picks) |-> Connection(ptp, i, picks[n])] :
        picks \in RandomPicks(targets, connectionsToMake)}

\* projectsToProcess.forEach(...), from project i on: every outcome
RECURSIVE NewConnections(_, _, _)
NewConnections(ptp, i, k) ==
  IF i > Len(ptp) THEN {<<>>}
  ELSE {a \o b : a \in ProjectConnections(ptp, i, k),
                 b \in NewConnections(ptp, i + 1, k)}

\* useState([]), useMediaQuery starts false, the effect has not run yet
MapInit ==
  /\ projects \in ProjectLists
  /\ isMobile = FALSE
  /\ dynamicConnections = <<>>
  /\ connEffectPending = TRUE

\* useEffect(() => {...}, [projects, isMobile])
ConnectionEffect ==
  /\ connEffectPending
  /\ IF Len(projects) > 1
       THEN \E newConnections \in
                NewConnections(projectsToProcess(projects, isMobile), 1,
                               maxConnectionsPerProject(isMobile)) :
              dynamicConnections' = newConnections
       ELSE dynamicConnections' = <<>>
  /\ connEffectPending' = FALSE
  /\ UNCHANGED <<projects, isMobile>>

\* useMediaQuery: the (max-width: 768px) query changes its answer; React
\* runs the effects of the previous render before it renders again
MapMediaQueryChange ==
  /\ ~connEffectPending
  /\ isMobile' = ~isMobile
  /\ connEffectPending' = TRUE
  /\ UNCHANGED <<projects, dynamicConnections>>

\* the parent passes a list cut down to fewer than 2 projects
ProjectsShrink ==
  /\ ~connEffectPending
  /\ Len(projects) > 1
  /\ \E n \in 0..1 : projects' = SubSeq(projects, 1, n)
  /\ connEffectPending' = TRUE
  /\ UNCHANGED <<isMobile, dynamicConnections>>

MapIdle ==
  /\ projects = <<>>
  /\ isMobile = FALSE
  /\ dynamicConnections = <<>>
  /\ connEffectPending = FALSE

\* how many projects the effect processes, as the claim states it
ProcessedCount ==
  IF isMobile THEN Min(15, Len(projects)) ELSE Len(projects)

\* C2: once the effect has run, every processed source project contributes
\* at most k connections (3 on desktop, 2 on mobile), only the first 15
\* projects are sources on mobile, the list has at most k * processed
\* entries, and it is empty when there are fewer than 2 projects.
C2_ConnectionsBounded ==
  ~connEffectPending =>
    LET k == IF isMobile THEN 2 ELSE 3
        dc == dynamicConnections
    IN /\ \A n \in DOMAIN dc : dc[n].src \in 1..ProcessedCount
       /\ \A i \in 1..ProcessedCount :
            Cardinality({n \in DOMAIN dc : dc[n].src = i}) <= k
       /\ Len(dc) <= k * ProcessedCount
       /\ (Len(projects) < 2 => dc = <<>>)

\* on desktop a source with more candidates than 3 contributes exactly 3
C2_Witness ==
  /\ ~connEffectPending
  /\ ~isMobile
  /\ Len(projects) > 4
  /\ \E i \in DOMAIN projects :
       Cardinality({n \in DOMAIN dynamicConnections :
                      dynamicConnections[n].src = i}) = 3

\* C3: every generated connection pairs two different records: the target
\* is a processed project whose title differs from the source's, the
\* endpoints are the two records' coordinates, and one source never uses
\* the same target record twice.
C3_DistinctPairs ==
  ~connEffectPending =>
    LET dc == dynamicConnections
    IN /\ \A n \in DOMAIN dc :
            /\ dc[n].tgt \in 1..ProcessedCount
            /\ dc[n].src # dc[n].tgt
            /\ projects[dc[n].tgt].project_title # projects[dc[n].src].project_title
            /\ dc[n].from = <<projects[dc[n].src].latitude, projects[dc[n].src].longitude>>
            /\ dc[n].to = <<projects[dc[n].tgt].latitude, projects[dc[n].tgt].longitude>>
       /\ \A n, m \in DOMAIN dc :
            (n # m /\ dc[n].src = dc[m].src) => dc[n].tgt # dc[m].tgt

\* on mobile a source with several candidates took two different targets
C3_Witness ==
  /\ ~connEffectPending
  /\ isMobile
  /\ \E n, m \in DOMAIN dynamicConnections :
       /\ n # m
       /\ dynamicConnections[n].src = dynamicConnections[m].src
       /\ dynamicConnections[n].tgt # dynamicConnections[m].tgt

-----------------------------------------------------------------------------
(* GlobalStats: the memoised aggregation                                   *)

\* longest project list passed to GlobalStats
MaxStatsProjects == 3
\* largest beneficiary count of one project in the statistics
MaxCount == 1

Countries == {"Brazil", "Peru"}

StatsProjects ==
  [country_province : Countries, direct_beneficiaries : 0..MaxCount,
   indirect_beneficiaries : 0..MaxCount]

\* projects.map(p => p.country_province)
countryOf(ps) == [i \in DOMAIN ps |-> ps[i].country_province]

\* mutant: counts the records instead of the distinct countries
countriesCountOf_len(ps) == Len(ps)

\* new Set(projects.map(p => p.country_province)).size
countriesCountOf(ps) == Cardinality(Range(countryOf(ps)))

\* projects.reduce((sum, p) => sum + p.direct_beneficiaries, 0)
RECURSIVE reduceDirect(_, _, _)
reduceDirect(ps, i, sum) ==
  IF i > Len(ps) THEN sum
  ELSE reduceDirect(ps, i + 1, sum + ps[i].direct_beneficiaries)

\* projects.reduce((sum, p) => sum + p.indirect_beneficiaries, 0)
RECURSIVE reduceIndirect(_, _, _)
reduceIndirect(ps, i, sum) ==
  IF i > Len(ps) THEN sum
  ELSE reduceIndirect(ps, i + 1, sum + ps[i].indirect_beneficiaries)

\* mutant: the indirect total sums the direct beneficiaries
GlobalStatsMemo_copy(ps) ==
  [activeInitiatives |-> Len(ps),
   countriesCount |-> countriesCountOf(ps),
   totalDirectBeneficiaries |-> reduceDirect(ps, 1, 0),
   totalIndirectBeneficiaries |-> reduceDirect(ps, 1, 0)]

\* the useMemo callback of GlobalStats
GlobalStatsMemo(ps) ==
  [activeInitiatives |-> Len(ps),
   countriesCount |-> countriesCountOf(ps),
   totalDirectBeneficiaries |-> reduceDirect(ps, 1, 0),
   totalIndirectBeneficiaries |-> reduceIndirect(ps, 1, 0)]

\* the first render, with an empty project list
StatsInit ==
  /\ statsProjects = <<>>
  /\ stats = GlobalStatsMemo(<<>>)

\* a render with a changed projects prop (one more record): useMemo
\* recomputes because its dependency [projects] changed
StatsRender ==
  /\ Len(statsProjects) < MaxStatsProjects
  /\ \E p \in StatsProjects :
       /\ statsProjects' = Append(statsProjects, p)
       /\ stats' = GlobalStatsMemo(statsProjects')

\* a render with the project list the map starts from again
StatsReset ==
  /\ statsProjects # <<>>
  /\ statsProjects' = <<>>
  /\ stats' = GlobalStatsMemo(statsProjects')

StatsIdle == StatsInit

\* the sum of field values, counted value by value
DirectTotal(ps) ==
  LET vals == {ps[i].direct_beneficiaries : i \in DOMAIN ps}
      RECURSIVE Weighted(_)
      Weighted(S) ==
        IF S = {} THEN 0
        ELSE LET v == CHOOSE x \in S : TRUE
             IN v * Cardinality({i \in DOMAIN ps : ps[i].direct_beneficiaries = v})
                + Weighted(S \ {v})
  IN Weighted(vals)

IndirectTotal(ps) ==
  LET vals == {ps[i].indirect_beneficiaries : i \in DOMAIN ps}
      RECURSIVE Weighted(_)
      Weighted(S) ==
        IF S = {} THEN 0
        ELSE LET v == CHOOSE x \in S : TRUE
             IN v * Cardinality({i \in DOMAIN ps : ps[i].indirect_beneficiaries = v})
                + Weighted(S \ {v})
  IN Weighted(vals)

\* C4: activeInitiatives is the number of records, countriesCount the number
\* of distinct country_province strings (records whose country no earlier
\* record has), the two totals are the sums of direct_beneficiaries and of
\* indirect_beneficiaries; all four are 0 for the empty list.
C4_StatsAggregates ==
  LET ps == statsProjects
  IN /\ stats.activeInitiatives = Len(ps)
     /\ stats.countriesCount =
          Cardinality({i \in DOMAIN ps :
             \A j \in 1..(i - 1) : ps[j].country_province # ps[i].country_province})
     /\ stats.totalDirectBeneficiaries = DirectTotal(ps)
     /\ stats.totalIndirectBeneficiaries = IndirectTotal(ps)
     /\ (ps = <<>> =>
           stats = [activeInitiatives |-> 0, countriesCount |-> 0,
                    totalDirectBeneficiaries |-> 0,
                    totalIndirectBeneficiaries |-> 0])

\* three records of two countries, with different direct and indirect sums
C4_Witness ==
  /\ stats.activeInitiatives = 3
  /\ stats.countriesCount = 2
  /\ stats.totalDirectBeneficiaries = 1
  /\ stats.totalIndirectBeneficiaries = 3

-----------------------------------------------------------------------------
(* Canvas loops: the frame-rate throttle of HexGrid and ParticleEffect     *)

\* clock resolution: timestamps are multiples of 1/TicksPerSecond seconds
\* (1000 / TicksPerSecond milliseconds)
TicksPerSecond == 120
\* last timestamp tried, in ticks
MaxTime == 60
\* longest gap between two frame callbacks, in ticks
MaxDelta == 9

Loops == {"hex", "particle", "optimised"}

\* const targetFPS = isMobile ? .. : ..
targetFPS(loop, mobile) ==
  CASE loop = "hex" -> IF mobile THEN 15 ELSE 24
    [] loop = "particle" -> IF mobile THEN 30 ELSE 60
    [] loop = "optimised" -> IF mobile THEN 20 ELSE 30

\* const frameSkipThreshold = isMobile ? .. : ..
frameSkipThreshold(loop, mobile) ==
  CASE loop = "hex" -> IF mobile THEN 3 ELSE 1
    [] loop = "optimised" -> IF mobile THEN 2 ELSE 1

\* mutant: the throttle never holds a frame back
TooEarly_never(timestamp, last, fps) == FALSE

\* timestamp - lastFrameTime < frameInterval, frameInterval = 1000 / targetFPS,
\* both sides in milliseconds times TicksPerSecond * targetFPS
TooEarly(timestamp, last, fps) ==
  (timestamp - last) * 1000 * fps < 1000 * TicksPerSecond

\* the effect has run: closure variables initialised, first frame requested
FrameInit ==
  /\ frameLoop \in Loops
  /\ frameMobile = FALSE
  /\ frameBusy = FALSE
  /\ lastFrameTime = 0
  /\ frameSkipCounter = 0
  /\ frameNow = 0
  /\ frameScheduled = TRUE
  /\ frameResult = "none"
  /\ frameLastBefore = 0
  /\ prevDrawnAt = -1

\* what every callback records about the past
FrameHistory(timestamp) ==
  /\ frameNow' = timestamp
  /\ frameLastBefore' = lastFrameTime
  /\ prevDrawnAt' = IF frameResult = "drawn" THEN frameNow ELSE prevDrawnAt

\* the timestamps the browser may pass to the next callback
NextTimestamps == (frameNow + 1)..Min(frameNow + MaxDelta, MaxTime)

\* HexGrid: animate(timestamp)
HexAnimate ==
  /\ frameLoop = "hex"
  /\ frameScheduled
  /\ \E timestamp \in NextTimestamps :
       /\ FrameHistory(timestamp)
       /\ IF TooEarly(timestamp, lastFrameTime, targetFPS("hex", frameMobile))
            THEN /\ frameScheduled' = TRUE
                 /\ frameResult' = "early"
                 /\ UNCHANGED <<lastFrameTime, frameSkipCounter>>
            ELSE IF frameSkipCounter + 1 < frameSkipThreshold("hex", frameMobile)
              THEN /\ frameSkipCounter' = frameSkipCounter + 1
                   /\ lastFrameTime' = timestamp
                   /\ frameScheduled' = TRUE
                   /\ frameResult' = "skipped"
              ELSE /\ frameSkipCounter' = 0
                   /\ lastFrameTime' = timestamp
                   /\ frameResult' = "drawn"
                   /\ frameScheduled' = TRUE
  /\ UNCHANGED <<frameLoop, frameMobile, frameBusy>>

\* ParticleEffect: animate(timestamp); the next frame is requested first.
\* canvasRef.current is set while the loop runs (only the cleanup, which
\* cancels the frame, clears it)
ParticleAnimate ==
  /\ frameLoop = "particle"
  /\ frameScheduled
  /\ \E timestamp \in NextTimestamps :
       /\ FrameHistory(timestamp)
       /\ frameScheduled' = TRUE
       /\ IF TooEarly(timestamp, lastFrameTime, targetFPS("particle", frameMobile))
            THEN /\ frameResult' = "early"
                 /\ UNCHANGED lastFrameTime
            ELSE /\ lastFrameTime' = timestamp
                 /\ frameResult' = "drawn"
  /\ UNCHANGED <<frameLoop, frameMobile, frameBusy, frameSkipCounter>>

\* the optimised ParticleEffect: animate(timestamp)
OptimisedAnimate ==
  /\ frameLoop = "optimised"
  /\ frameScheduled
  /\ \E timestamp \in NextTimestamps :
       /\ FrameHistory(timestamp)
       /\ frameScheduled' = TRUE
       /\ IF TooEarly(timestamp, lastFrameTime, targetFPS("optimised", frameMobile))
            THEN /\ frameResult' = "early"
                 /\ UNCHANGED <<lastFrameTime, frameSkipCounter>>
            ELSE IF frameSkipCounter + 1 < frameSkipThreshold("optimised", frameMobile)
              THEN /\ frameSkipCounter' = frameSkipCounter + 1
                   /\ frameResult' = "skipped"
                   /\ UNCHANGED lastFrameTime
              ELSE /\ frameSkipCounter' = 0
                   /\ lastFrameTime' = timestamp
                   /\ frameResult' = IF frameBusy THEN "cleared" ELSE "drawn"
  /\ UNCHANGED <<frameLoop, frameMobile, frameBusy>>

\* a dependency of the effect changes (the media query; for the optimised
\* loop also isZooming / isPanning): the cleanup cancels the requested
\* frame, the effect starts a new loop with a fresh closure
FrameEffectRestart ==
  /\ \/ frameMobile' = ~frameMobile /\ UNCHANGED frameBusy
     \/ frameLoop = "optimised" /\ frameBusy' = ~frameBusy /\ UNCHANGED frameMobile
  /\ lastFrameTime' = 0
  /\ frameSkipCounter' = 0
  /\ frameScheduled' = TRUE
  /\ frameResult' = "none"
  /\ frameLastBefore' = 0
  /\ prevDrawnAt' = -1
  /\ UNCHANGED <<frameLoop, frameNow>>

FrameIdle ==
  /\ frameLoop = "none"
  /\ frameMobile = FALSE
  /\ frameBusy = FALSE
  /\ lastFrameTime = 0
  /\ frameSkipCounter = 0
  /\ frameNow = 0
  /\ frameScheduled = FALSE
  /\ frameResult = "none"
  /\ frameLastBefore = 0
  /\ prevDrawnAt = -1

\* targetFPS as the claim lists it: hex grid 15 / 24, particles 30 / 60,
\* optimised particles 20 / 30 (mobile / desktop)
ClaimedFPS ==
  LET table == [hex |-> <<15, 24>>, particle |-> <<30, 60>>, optimised |-> <<20, 30>>]
  IN table[frameLoop][IF frameMobile THEN 1 ELSE 2]

\* a gap of d ticks is at least frameInterval = 1000 / targetFPS milliseconds
AtLeastFrameInterval(d) == d * ClaimedFPS >= TicksPerSecond

\* C6: a callback draws only when its timestamp is at least frameInterval
\* after the timestamp recorded for the last processed frame; two
\* consecutive drawn frames of one loop are at least frameInterval apart;
\* a callback that does not draw still requests the next frame.
C6_FrameThrottle ==
  /\ frameResult = "drawn" => AtLeastFrameInterval(frameNow - frameLastBefore)
  /\ (frameResult = "drawn" /\ prevDrawnAt >= 0) =>
       AtLeastFrameInterval(frameNow - prevDrawnAt)
  /\ frameResult \in {"early", "skipped", "cleared"} => frameScheduled

\* the mobile hex grid has drawn two frames
C6_Witness ==
  /\ frameLoop = "hex"
  /\ frameMobile
  /\ frameResult = "drawn"
  /\ prevDrawnAt >= 0

-----------------------------------------------------------------------------
(* ConnectionLines: values                                                 *)
(*                                                                         *)
(* A coordinate is an integer number of units, SubUnits units to the       *)
(* fourth decimal of a degree, or NaN.  A from / to value is an array of   *)
(* coordinates or something that is no array.                              *)

\* resolution below the fourth decimal
SubUnits == 10
\* largest coordinate magnitude, in units (keeps every product in range)
MaxCoord == 10000

\* the one number that is not a number
NaN == 0 - (MaxCoord * MaxCoord)
isNaN(x) == x = NaN

Abs(x) == IF x < 0 THEN 0 - x ELSE x

\* division rounding towards zero, and to the nearest integer
TruncDiv(a, b) == IF a < 0 THEN 0 - ((0 - a) \div b) ELSE a \div b
RoundDiv(a, b) == IF a < 0 THEN 0 - ((2 * (0 - a) + b) \div (2 * b))
                  ELSE (2 * a + b) \div (2 * b)

Arr(items) == [kind |-> "array", items |-> items]
NotArray == [kind |-> "undefined", items |-> <<>>]
isArray(v) == v.kind = "array"

\* Number.prototype.toFixed(4): the sign of x, then |x| rounded to four
\* decimals (half up); a negative x that rounds to zero keeps its sign
toFixed4(x) == [neg |-> x < 0, n |-> (2 * Abs(x) + SubUnits) \div (2 * SubUnits)]

\* the value of an optional field that is absent (counts are >= 0)
undefined == 0 - 1

\* conn.from_project_indirect_beneficiaries || 0
beneOrZero(conn) ==
  IF conn.from_project_indirect_beneficiaries = undefined THEN 0
  ELSE conn.from_project_indirect_beneficiaries

-----------------------------------------------------------------------------
(* generateCurvedPath                                                      *)

DEFAULT_CURVE_STEPS == 21

\* Math.sqrt, rounded down to a whole number of units
RECURSIVE SqrtBetween(_, _, _)
SqrtBetween(n, lo, hi) ==
  IF lo >= hi THEN lo
  ELSE LET mid == (lo + hi + 1) \div 2
       IN IF mid * mid <= n THEN SqrtBetween(n, mid, hi)
          ELSE SqrtBetween(n, lo, mid - 1)
Sqrt(n) == SqrtBetween(n, 0, 4 * MaxCoord)

\* a % b of the language: the remainder has the sign of the dividend
JsRem(a, b) == IF a < 0 THEN 0 - ((0 - a) % b) ELSE a % b

\* seed = (from[0]*1000 + from[1] + to[0]*100 + to[1]) % 1000 / 1000, in
\* millionths; 1000 degrees are 1000 * 10000 * SubUnits units
seedMicro(from, to) ==
  TruncDiv(JsRem(from[1] * 1000 + from[2] + to[1] * 100 + to[2],
                 1000 * 10000 * SubUnits),
           10 * SubUnits)

\* randomFactor = 0.15 + seed * 0.3, in millionths
randomFactorMicro(from, to) == 150000 + TruncDiv(3 * seedMicro(from, to), 10)

\* the control point of the curve: the midpoint displaced along the
\* normalised perpendicular by curveFactor
controlPoint(from, to) ==
  LET midX == TruncDiv(from[1] + to[1], 2)
      midY == TruncDiv(from[2] + to[2], 2)
      dx == to[1] - from[1]
      dy == to[2] - from[2]
      perpX == 0 - dy
      perpY == dx
      root == Sqrt(perpX * perpX + perpY * perpY)
      length == IF root = 0 THEN 1 ELSE root
      distance == Sqrt(dx * dx + dy * dy)
      \* Math.min(1, distance / 50), in thousandths
      distanceFactorMilli == Min(1000, TruncDiv(distance * 20, 10000 * SubUnits))
      scaled == TruncDiv(TruncDiv(distance * distanceFactorMilli, 1000)
                           * TruncDiv(randomFactorMicro(from, to), 1000), 1000)
      \* Math.min(distance * randomFactor * distanceFactor, 25)
      curveFactor == Min(scaled, 25 * 10000 * SubUnits)
  IN <<midX + TruncDiv(TruncDiv(perpX * 1000, length) * curveFactor, 1000),
       midY + TruncDiv(TruncDiv(perpY * 1000, length) * curveFactor, 1000)>>

\* the quadratic Bezier point at t = i / steps
bezierPoint(from, control, to, i, steps) ==
  LET a == (steps - i) * (steps - i)
      b == 2 * (steps - i) * i
      c == i * i
  IN <<RoundDiv(a * from[1] + b * control[1] + c * to[1], steps * steps),
       RoundDiv(a * from[2] + b * control[2] + c * to[2], steps * steps)>>

\* the loop of generateCurvedPath: the points whose coordinates are numbers
\* (t = 0 / 0 is NaN when steps is 0)
pathPoints(from, control, to, steps) ==
  IF steps = 0 THEN <<>>
  ELSE [n \in 1..(steps + 1) |-> bezierPoint(from, control, to, n - 1, steps)]

\* mutant: the path is generated from to to from
generateCurvedPath_reversed(from, to, steps) ==
  LET path == pathPoints(to, controlPoint(to, from), from, steps)
  IN IF Len(path) < 2 THEN <<from, to>> ELSE path

\* generateCurvedPath(from, to, steps) for numeric coordinates: the curve,
\* or the straight line [from, to] when fewer than 2 points remain
generateCurvedPath(from, to, steps) ==
  LET path == pathPoints(from, controlPoint(from, to), to, steps)
  IN IF Len(path) < 2 THEN <<from, to>> ELSE path

-----------------------------------------------------------------------------
(* generateCurvedPath called on its own, with any arguments                *)

\* largest steps argument tried besides DEFAULT_CURVE_STEPS
MaxSteps == 3

\* the numbers that are not finite
Infinity == MaxCoord * MaxCoord + 1
isFinite(x) == x # NaN /\ x # Infinity /\ x # 0 - Infinity
\* a finite number too large to be squared (1e200): Huge * Huge is Infinity,
\* Huge + x is Huge for every coordinate-sized x
Huge == MaxCoord * MaxCoord + 2
isHuge(x) == x = Huge \/ x = 0 - Huge

\* from / to arguments: places north-east and south-west of the origin, the
\* origin, a place far south-west, a place with NaN, places with +-Infinity,
\* two places with the first coordinate -Huge, and a value that is no array
CurvePoints ==
  {Arr(<<700, 200>>), Arr(<<0 - 50, 0 - 20>>), Arr(<<0, 0>>),
   Arr(<<0 - 2350, 0 - 4660>>), Arr(<<10, 10>>),
   Arr(<<NaN, 5>>), Arr(<<5, Infinity>>), Arr(<<0 - Infinity, 5>>),
   Arr(<<0 - Huge, 0>>), Arr(<<0 - Huge, 50>>),
   NotArray}

CurveSteps == (0..MaxSteps) \cup {DEFAULT_CURVE_STEPS}

\* the local randomFactor; NaN as soon as one coordinate is not finite
\* (Infinity % 1000 and Infinity - Infinity are NaN)
randomFactorOf(from, to) ==
  IF \A k \in 1..2 : isFinite(from[k]) /\ isFinite(to[k])
    THEN randomFactorMicro(from, to)
    ELSE NaN

\* generateCurvedPath(from, to, steps) for any arguments.  Reading from[0]
\* of a value that is no array throws, and the catch returns [from, to].
\* With a coordinate that is not finite randomFactor is NaN, so are
\* curveFactor and the control point, and 2 * (1 - t) * t * NaN is NaN for
\* every t: no point is pushed
generateCurvedPath_any(from, to, steps) ==
  IF ~isArray(from) \/ ~isArray(to) THEN <<from, to>>
  ELSE IF isNaN(randomFactorOf(from.items, to.items)) THEN <<from, to>>
  ELSE LET path == generateCurvedPath(from.items, to.items, steps)
       IN [n \in DOMAIN path |-> Arr(path[n])]

\* the values the seed, in millionths, can have when the sum is negative
\* and of huge magnitude: its remainder is some number from -1000 to 0
NegativeSeeds == {0 - 999999, 0 - 500000, 0 - 1, 0}

\* the calls with a first coordinate of -Huge (the second coordinates are
\* coordinate-sized): what randomFactor and the returned path can be.
\*  - from[0] = to[0]: dx is 0, nothing overflows, the control point is the
\*    midpoint displaced in x by less than Huge absorbs;
\*  - otherwise dx * dx is Infinity, so are length and distance, the
\*    normalised perpendicular is 0 and curveFactor is
\*    Math.min(Infinity * randomFactor, 25): 25 for a positive randomFactor
\*    (control point = midpoint), -Infinity for a negative one and NaN for 0;
\*    then 0 * curveFactor is NaN and no point is pushed.
hugeOutcomes(from, to, steps) ==
  LET yOf(i) == bezierPoint(<<0, from[2]>>, <<0, TruncDiv(from[2] + to[2], 2)>>,
                            <<0, to[2]>>, i, steps)[2]
      xOf(i) == IF i = 0 THEN from[1] ELSE IF i = steps THEN to[1] ELSE 0 - Huge
      full == IF steps = 0 THEN <<Arr(from), Arr(to)>>
              ELSE [n \in 1..(steps + 1) |-> Arr(<<xOf(n - 1), yOf(n - 1)>>)]
  IN {[randomFactor |-> 150000 + TruncDiv(3 * seed, 10),
       path |-> IF from[1] = to[1] \/ 150000 + TruncDiv(3 * seed, 10) > 0
                  THEN full
                  ELSE <<Arr(from), Arr(to)>>] :
        seed \in NegativeSeeds}

\* what one call can compute and return
curveOutcomes(from, to, steps) ==
  IF ~isArray(from) \/ ~isArray(to)
    THEN {[randomFactor |-> NaN, path |-> <<from, to>>]}
  ELSE IF /\ \A k \in 1..2 : isFinite(from.items[k]) /\ isFinite(to.items[k])
          /\ \E k \in 1..2 : isHuge(from.items[k]) \/ isHuge(to.items[k])
    THEN hugeOutcomes(from.items, to.items, steps)
  ELSE {[randomFactor |-> randomFactorOf(from.items, to.items),
         path |-> generateCurvedPath_any(from, to, steps)]}

CurveInit ==
  /\ curveFrom \in CurvePoints
  /\ curveTo \in CurvePoints
  /\ curveSteps \in CurveSteps
  /\ curveCalled = FALSE
  /\ curveRandomFactor = NaN
  /\ curvePath = <<>>

\* the call returns
CurveCall ==
  /\ ~curveCalled
  /\ curveCalled' = TRUE
  /\ \E outcome \in curveOutcomes(curveFrom, curveTo, curveSteps) :
       /\ curveRandomFactor' = outcome.randomFactor
       /\ curvePath' = outcome.path
  /\ UNCHANGED <<curveFrom, curveTo, curveSteps>>

CurveIdle ==
  /\ curveFrom = NotArray
  /\ curveTo = NotArray
  /\ curveSteps = 0
  /\ curveCalled = FALSE
  /\ curveRandomFactor = NaN
  /\ curvePath = <<>>

\* v is an array of two finite numbers
FinitePoint(v) ==
  /\ isArray(v)
  /\ \A k \in 1..2 : v.items[k] \notin {NaN, Infinity, 0 - Infinity}

\* v is an array of two numbers of the size of a coordinate
CoordinatePoint(v) ==
  /\ FinitePoint(v)
  /\ \A k \in 1..2 : 0 - MaxCoord <= v.items[k] /\ v.items[k] <= MaxCoord

\* C11 as stated, for coordinates of ordinary size: randomFactor lies
\* between 0.15 and 0.45.  The remainder of a negative sum is negative, so
\* is the seed, and randomFactor falls below 0.15.
C11_RandomFactorRange ==
  (curveCalled /\ CoordinatePoint(curveFrom) /\ CoordinatePoint(curveTo)) =>
    (150000 <= curveRandomFactor /\ curveRandomFactor <= 450000)

\* C12 as stated, its first clause: for finite from and to and steps >= 1
\* the call returns steps + 1 points.  A finite coordinate whose square
\* overflows makes curveFactor -Infinity or NaN, and the call falls back to
\* [from, to].
C12_FinitePathLength ==
  (curveCalled /\ FinitePoint(curveFrom) /\ FinitePoint(curveTo) /\ curveSteps >= 1)
    => Len(curvePath) = curveSteps + 1

\* C12, amended: for from and to of the size of coordinates and steps >= 1
\* the call returns steps + 1 finite points, the first equal to from and
\* the last equal to to; for every input it returns at least 2 points, and
\* [from, to] when steps is 0, a coordinate is not finite or from or to is
\* no array.
C12_PathShape ==
  curveCalled =>
    /\ Len(curvePath) >= 2
    /\ (CoordinatePoint(curveFrom) /\ CoordinatePoint(curveTo) /\ curveSteps >= 1) =>
         /\ Len(curvePath) = curveSteps + 1
         /\ curvePath[1] = curveFrom
         /\ curvePath[Len(curvePath)] = curveTo
         /\ \A n \in DOMAIN curvePath : FinitePoint(curvePath[n])
    /\ (~FinitePoint(curveFrom) \/ ~FinitePoint(curveTo) \/ curveSteps = 0) =>
         curvePath = <<curveFrom, curveTo>>

\* a curve of 3 steps from the south-west to the north-east whose middle
\* points leave the straight line
C12_Witness ==
  /\ curveCalled
  /\ curveFrom = Arr(<<0 - 2350, 0 - 4660>>)
  /\ curveTo = Arr(<<700, 200>>)
  /\ curveSteps = 3
  /\ Len(curvePath) = 4
  /\ curvePath[2].items[1] * 3 # 2 * (0 - 2350) + 700

-----------------------------------------------------------------------------
(* ConnectionLines: the useMemo that selects connections and their paths   *)

\* longest connection list passed to ConnectionLines
MaxConnections == 3
\* largest maxConnections prop tried besides the two defaults
MaxLimit == 2
DEFAULT_MAX_CONNECTIONS == 21
\* the default of the earlier version of the component
DEFAULT_MAX_CONNECTIONS_EARLIER == 33

Conn(id, from, to, bene) ==
  [id |-> id, from |-> from, to |-> to,
   from_project_indirect_beneficiaries |-> bene]

\* valid connections: "a" and "b" leave places that agree to four decimals,
\* "c" leaves a place just below zero, "e" a place of its own, "f" has the
\* coordinates of "a"
ValidPool ==
  {Conn("a", Arr(<<0, 0>>), Arr(<<500, 500>>), 5),
   Conn("b", Arr(<<3, 0>>), Arr(<<0, 900>>), 9),
   Conn("c", Arr(<<0 - 3, 0>>), Arr(<<500, 500>>), undefined),
   Conn("e", Arr(<<700, 0 - 200>>), Arr(<<500, 500>>), 2),
   Conn("f", Arr(<<0, 0>>), Arr(<<500, 500>>), 7)}

\* invalid connections: from is no array, to has 3 elements, a coordinate
\* of from is NaN
InvalidPool ==
  {Conn("w", NotArray, Arr(<<0, 0>>), 9),
   Conn("y", Arr(<<900, 0>>), Arr(<<1, 2, 3>>), 9),
   Conn("z", Arr(<<900, NaN>>), Arr(<<0, 0>>), 9)}

ConnectionPool == ValidPool \cup InvalidPool

MaxConnectionsValues ==
  (0..MaxLimit) \cup {DEFAULT_MAX_CONNECTIONS, DEFAULT_MAX_CONNECTIONS_EARLIER}

\* mutant: the length checks are missing
isValidConnection_noLength(conn) ==
  /\ isArray(conn.from) /\ isArray(conn.to)
  /\ Len(conn.from.items) >= 2 /\ Len(conn.to.items) >= 2
  /\ ~isNaN(conn.from.items[1]) /\ ~isNaN(conn.from.items[2])
  /\ ~isNaN(conn.to.items[1]) /\ ~isNaN(conn.to.items[2])

\* the predicate of connections.filter(...)
isValidConnection(conn) ==
  /\ isArray(conn.from) /\ isArray(conn.to)
  /\ Len(conn.from.items) = 2 /\ Len(conn.to.items) = 2
  /\ ~isNaN(conn.from.items[1]) /\ ~isNaN(conn.from.items[2])
  /\ ~isNaN(conn.to.items[1]) /\ ~isNaN(conn.to.items[2])

RECURSIVE validConnections(_)
validConnections(conns) ==
  IF conns = <<>> THEN <<>>
  ELSE (IF isValidConnection(Head(conns)) THEN <<Head(conns)>> ELSE <<>>)
       \o validConnections(Tail(conns))

\* `${conn.from[0].toFixed(4)}-${conn.from[1].toFixed(4)}`
groupKey(conn) == <<toFixed4(conn.from.items[1]), toFixed4(conn.from.items[2])>>

\* the keys of projectGroups, in the order they were inserted
RECURSIVE groupKeys(_, _)
groupKeys(valid, seen) ==
  IF valid = <<>> THEN <<>>
  ELSE IF groupKey(Head(valid)) \in seen THEN groupKeys(Tail(valid), seen)
  ELSE <<groupKey(Head(valid))>>
       \o groupKeys(Tail(valid), seen \cup {groupKey(Head(valid))})

\* projectGroups[key]
RECURSIVE groupOf(_, _)
groupOf(valid, key) ==
  IF valid = <<>> THEN <<>>
  ELSE (IF groupKey(Head(valid)) = key THEN <<Head(valid)>> ELSE <<>>)
       \o groupOf(Tail(valid), key)

\* one step of the stable sort: conn goes behind every element that has at
\* least its beneficiaries
RECURSIVE insertByBeneficiaries(_, _)
insertByBeneficiaries(sorted, conn) ==
  IF sorted = <<>> THEN <<conn>>
  ELSE IF beneOrZero(Head(sorted)) >= beneOrZero(conn)
    THEN <<Head(sorted)>> \o insertByBeneficiaries(Tail(sorted), conn)
    ELSE <<conn>> \o sorted

\* mutant: the comparator is beneA - beneB (ascending)
RECURSIVE sortByBeneficiaries_asc(_)
sortByBeneficiaries_asc(conns) ==
  IF conns = <<>> THEN <<>>
  ELSE LET rest == sortByBeneficiaries_asc(SubSeq(conns, 1, Len(conns) - 1))
           last == conns[Len(conns)]
           before == {i \in DOMAIN rest : beneOrZero(rest[i]) <= beneOrZero(last)}
       IN SubSeq(rest, 1, Cardinality(before)) \o <<last>>
          \o SubSeq(rest, Cardinality(before) + 1, Len(rest))

\* [...conns].sort((a, b) => beneB - beneA): stable, descending
RECURSIVE sortByBeneficiaries(_)
sortByBeneficiaries(conns) ==
  IF conns = <<>> THEN <<>>
  ELSE insertByBeneficiaries(sortByBeneficiaries(SubSeq(conns, 1, Len(conns) - 1)),
                             conns[Len(conns)])

\* the most important connection of each project group
guaranteedConnections(valid) ==
  LET keys == groupKeys(valid, {})
  IN [k \in 1..Len(keys) |-> sortByBeneficiaries(groupOf(valid, keys[k]))[1]]

\* gConn.from[0] === conn.from[0] && ... && gConn.to[1] === conn.to[1]
sameCoordinates(g, conn) ==
  /\ g.from.items[1] = conn.from.items[1]
  /\ g.from.items[2] = conn.from.items[2]
  /\ g.to.items[1] = conn.to.items[1]
  /\ g.to.items[2] = conn.to.items[2]

\* the valid connections that are not already guaranteed
RECURSIVE remainingConnections(_, _)
remainingConnections(valid, guaranteed) ==
  IF valid = <<>> THEN <<>>
  ELSE (IF \E k \in DOMAIN guaranteed : sameCoordinates(guaranteed[k], Head(valid))
          THEN <<>> ELSE <<Head(valid)>>)
       \o remainingConnections(Tail(valid), guaranteed)

\* [...topRemaining].sort(() => Math.random() - 0.5): some order of the same
\* elements
RECURSIVE Shuffles(_)
Shuffles(conns) ==
  IF conns = <<>> THEN {<<>>}
  ELSE UNION {{<<conns[r]>> \o rest : rest \in Shuffles(RemoveAt(conns, r))} :
                r \in DOMAIN conns}

\* every value additionalConnections can take
additionalConnections(valid, guaranteed, limit) ==
  LET remainingSlots == limit - Len(guaranteed)
  IN IF remainingSlots > 0
       THEN LET sortedRemaining ==
                  sortByBeneficiaries(remainingConnections(valid, guaranteed))
                topRemaining == Take(sortedRemaining, remainingSlots * 2)
            IN {Take(shuffledRemaining, remainingSlots) :
                  shuffledRemaining \in Shuffles(topRemaining)}
       ELSE {<<>>}

\* every value selectedConnections can take
selectedConnections(conns, limit) ==
  LET valid == validConnections(conns)
      guaranteed == guaranteedConnections(valid)
  IN {guaranteed \o additional :
        additional \in additionalConnections(valid, guaranteed, limit)}

\* selectedConnections.map(c => generateCurvedPath(c.from, c.to, 21))
pathsOf(selected) ==
  [n \in DOMAIN selected |->
     generateCurvedPath(selected[n].from.items, selected[n].to.items,
                        DEFAULT_CURVE_STEPS)]

\* the useMemo callback: the values { limitedConnections, connectionPaths }
\* it can return
MemoResults(conns, limit) ==
  {[limitedConnections |-> selected, connectionPaths |-> pathsOf(selected)] :
     selected \in selectedConnections(conns, limit)}

\* a render of ConnectionLines with new props.  With an empty connections
\* prop the component returns before any hook
LinesMemo(conns, limit) ==
  IF conns = <<>>
    THEN /\ limitedConnections' = <<>>
         /\ connectionPaths' = <<>>
    ELSE \E memo \in MemoResults(conns, limit) :
           /\ limitedConnections' = memo.limitedConnections
           /\ connectionPaths' = memo.connectionPaths

\* MapComponent starts with dynamicConnections = []
SelectInit ==
  /\ connections = <<>>
  /\ maxConnections \in MaxConnectionsValues
  /\ limitedConnections = <<>>
  /\ connectionPaths = <<>>

\* a render with a longer connections prop: the memo is recomputed
SelectRender ==
  /\ Len(connections) < MaxConnections
  /\ \E conn \in ConnectionPool :
       /\ connections' = Append(connections, conn)
       /\ LinesMemo(connections', maxConnections)
  /\ UNCHANGED maxConnections

\* a render with another maxConnections prop: the memo is recomputed
SelectLimitChange ==
  /\ \E limit \in MaxConnectionsValues \ {maxConnections} :
       /\ maxConnections' = limit
       /\ LinesMemo(connections, limit)
  /\ UNCHANGED connections

SelectIdle ==
  /\ connections = <<>>
  /\ maxConnections = DEFAULT_MAX_CONNECTIONS
  /\ limitedConnections = <<>>
  /\ connectionPaths = <<>>

\* the connections of the list conns that share the place of conn, by the
\* text of the rounded from coordinates
SamePlace(conns, conn) ==
  {c \in Range(conns) : groupKey(c) = groupKey(conn)}

\* v is an array of exactly two numbers
TwoNumbers(v) ==
  /\ isArray(v)
  /\ Len(v.items) = 2
  /\ \A k \in 1..2 : v.items[k] # NaN

\* C8 as stated: the selected list has at most maxConnections entries.
\* The one connection taken for each place is never cut back to the limit,
\* so more places than maxConnections give a longer list.
C8_AtMostMaxConnections ==
  Len(limitedConnections) <= maxConnections

\* C9: for every valid connection of the input, the selected list holds a
\* connection of the same place (from rounded to 4 decimals) whose
\* from_project_indirect_beneficiaries (0 when missing) is the largest of
\* the valid connections of that place, whatever maxConnections is.
C9_OnePerProject ==
  \A c \in Range(validConnections(connections)) :
    \E s \in Range(limitedConnections) :
      /\ groupKey(s) = groupKey(c)
      /\ \A o \in SamePlace(validConnections(connections), c) :
           beneOrZero(s) >= beneOrZero(o)

\* three connections of one place, the limit is 0, and the one with the most
\* beneficiaries is the connection selected
C9_Witness ==
  /\ maxConnections = 0
  /\ Len(connections) = 3
  /\ \A i \in DOMAIN connections : connections[i].id \in {"a", "b", "f"}
  /\ \E i \in DOMAIN connections : connections[i].id = "b"
  /\ \E i \in DOMAIN connections : connections[i].id = "f"
  /\ Len(limitedConnections) = 1
  /\ limitedConnections[1].id = "b"

\* C10: every selected connection has two numbers as from and as to and is
\* an element of the input; there is one path for each selected connection,
\* in the same order: path n starts at the from and ends at the to of
\* selected connection n.
C10_OnlyValidSelected ==
  /\ \A n \in DOMAIN limitedConnections :
       /\ TwoNumbers(limitedConnections[n].from)
       /\ TwoNumbers(limitedConnections[n].to)
       /\ limitedConnections[n] \in Range(connections)
  /\ Len(connectionPaths) = Len(limitedConnections)
  /\ \A n \in DOMAIN connectionPaths :
       /\ Len(connectionPaths[n]) >= 2
       /\ connectionPaths[n][1] = limitedConnections[n].from.items
       /\ connectionPaths[n][Len(connectionPaths[n])] = limitedConnections[n].to.items

\* an input with a NaN coordinate between two valid connections of different
\* places: the two valid ones are selected, each with its path
C10_Witness ==
  /\ Len(connections) = 3
  /\ connections[1].id = "e"
  /\ connections[2].id = "z"
  /\ connections[3].id = "b"
  /\ Len(limitedConnections) = 2
  /\ Len(connectionPaths) = 2
  /\ limitedConnections[1].id = "e"
  /\ limitedConnections[2].id = "b"

-----------------------------------------------------------------------------
(* ConnectionLines: the visibility effect, the animation effect and the    *)
(* two intervals                                                           *)
(*                                                                         *)
(* useEffect callbacks are passive effects: React commits a render and     *)
(* runs them later, in hook order, after the cleanups of the effects they  *)
(* replace, and always before the next render of the component.  An action *)
(* that makes the component render is therefore enabled only when no       *)
(* effect is pending; an interval callback only queues a state update and  *)
(* can run at any time.                                                    *)

DEFAULT_ANIMATION_INTERVAL == 40
\* the values of the animationSpeed prop
Speeds == {1, 2}

\* the connections prop: "e" is valid, "y" is not (its to has 3 elements)
LinesInput ==
  <<Conn("e", Arr(<<700, 0 - 200>>), Arr(<<500, 500>>), 2),
    Conn("y", Arr(<<900, 0>>), Arr(<<1, 2, 3>>), 9)>>

\* the map views: around the to of "e", around the from of "y", and the
\* whole area from far above
Views ==
  {[name |-> "atTo", zoom |-> 12, south |-> 400, west |-> 400, north |-> 600, east |-> 600],
   [name |-> "atUnselected", zoom |-> 12, south |-> 850, west |-> 0 - 50, north |-> 950, east |-> 50],
   [name |-> "world", zoom |-> 2, south |-> 0 - 9000, west |-> 0 - 9000, north |-> 9000, east |-> 9000]}

\* bounds.contains([lat, lng]) of Leaflet's LatLngBounds
contains(bounds, lat, lng) ==
  /\ bounds.south <= lat /\ lat <= bounds.north
  /\ bounds.west <= lng /\ lng <= bounds.east

\* mutant: only the from endpoint is looked at
checkVisibility_fromOnly(bounds, conns) ==
  \E n \in DOMAIN conns :
    contains(bounds, conns[n].from.items[1], conns[n].from.items[2])

\* anyVisible of checkVisibility
checkVisibility(bounds, conns) ==
  \E n \in DOMAIN conns :
    \/ contains(bounds, conns[n].from.items[1], conns[n].from.items[2])
    \/ contains(bounds, conns[n].to.items[1], conns[n].to.items[2])

traceInterval(speed) == Max(20, RoundDiv(DEFAULT_ANIMATION_INTERVAL, speed))
pulseInterval(speed) == Max(50, RoundDiv(DEFAULT_ANIMATION_INTERVAL * 2, speed))

\* window.setInterval returns a handle that no interval in use has
newIntervalId(active) ==
  CHOOSE id \in 1..(Cardinality(active) + 1) :
    /\ \A t \in active : t.id # id
    /\ \A smaller \in 1..(id - 1) : \E t \in active : t.id = smaller

\* window.clearInterval(id)
clearInterval(active, id) == {t \in active : t.id # id}

\* the refs and the browser's intervals as one value
Timers ==
  [trace |-> animationIntervalRef, pulse |-> pulseIntervalRef,
   active |-> activeIntervals]

\* mutant: the animation effect returns no cleanup
cleanupTimers_none(timers) == timers

\* the cleanup function returned by the animation effect
cleanupTimers(timers) ==
  [trace |-> 0, pulse |-> 0,
   active |-> clearInterval(clearInterval(timers.active, timers.trace), timers.pulse)]

\* the branch of the animation effect for !isVisible
hiddenBranch(timers) ==
  [trace |-> 0, pulse |-> 0,
   active |-> clearInterval(clearInterval(timers.active, timers.trace), timers.pulse)]

\* the rest of the animation effect: clear the old trace interval, set a new
\* one, clear the old pulse interval, set a new one
visibleBranch(timers, speed) ==
  LET afterClearTrace == clearInterval(timers.active, timers.trace)
      traceId == newIntervalId(afterClearTrace)
      afterSetTrace == afterClearTrace \cup
        {[id |-> traceId, kind |-> "trace", ms |-> traceInterval(speed)]}
      afterClearPulse == clearInterval(afterSetTrace, timers.pulse)
      pulseId == newIntervalId(afterClearPulse)
  IN [trace |-> traceId, pulse |-> pulseId,
      active |-> afterClearPulse \cup
        {[id |-> pulseId, kind |-> "pulse", ms |-> pulseInterval(speed)]}]

\* a run of the animation effect: the cleanup of the run before it, if that
\* run returned one, then the effect with the isVisible of the render
animationEffect(timers, visible, speed, hadCleanup) ==
  LET cleaned == IF hadCleanup THEN cleanupTimers(timers) ELSE timers
  IN IF ~visible THEN hiddenBranch(cleaned) ELSE visibleBranch(cleaned, speed)

\* what the component returns
rendered(visible) == IF visible THEN "lines" ELSE "nothing"

\* the first render of ConnectionLines is committed: isVisible starts true,
\* both effects are still to run
LinesInit ==
  /\ connections = LinesInput
  /\ maxConnections = DEFAULT_MAX_CONNECTIONS
  /\ \E memo \in MemoResults(LinesInput, DEFAULT_MAX_CONNECTIONS) :
       /\ limitedConnections = memo.limitedConnections
       /\ connectionPaths = memo.connectionPaths
  /\ linesMounted = TRUE
  /\ animationSpeed \in Speeds
  /\ isVisible = TRUE
  /\ animationPhase = 0
  /\ pulsePhase = 0
  /\ animationIntervalRef = 0
  /\ pulseIntervalRef = 0
  /\ animCleanup = FALSE
  /\ visEffectPending = TRUE
  /\ animEffectPending = TRUE
  /\ linesRendered = rendered(TRUE)
  /\ mapBounds \in Views
  /\ checkSubscribed = FALSE
  /\ activeIntervals = {}

\* React runs the pending passive effects.  The visibility effect checks
\* once and subscribes checkVisibility; the animation effect runs with the
\* isVisible of the committed render; the setIsVisible of the check then
\* renders the component again
FlushPassiveEffects ==
  /\ linesMounted
  /\ visEffectPending \/ animEffectPending
  /\ LET timers == IF animEffectPending
                     THEN animationEffect(Timers, isVisible, animationSpeed, animCleanup)
                     ELSE Timers
         anyVisible == IF visEffectPending
                         THEN checkVisibility(mapBounds, limitedConnections)
                         ELSE isVisible
     IN /\ animationIntervalRef' = timers.trace
        /\ pulseIntervalRef' = timers.pulse
        /\ activeIntervals' = timers.active
        /\ animCleanup' = IF animEffectPending THEN isVisible ELSE animCleanup
        /\ checkSubscribed' = (checkSubscribed \/ visEffectPending)
        /\ isVisible' = anyVisible
        /\ visEffectPending' = FALSE
        /\ animEffectPending' = (anyVisible # isVisible)
        /\ linesRendered' = rendered(anyVisible)
  /\ UNCHANGED <<linesMounted, animationSpeed, animationPhase, pulsePhase, mapBounds>>

\* the map fires moveend (and zoomend before it when the zoom changed) with
\* new bounds: checkVisibility, if subscribed, sets isVisible and a changed
\* isVisible renders the component
ViewChange(bounds) ==
  /\ linesMounted
  /\ mapBounds' = bounds
  /\ IF checkSubscribed
       THEN /\ ~visEffectPending /\ ~animEffectPending
            /\ isVisible' = checkVisibility(bounds, limitedConnections)
            /\ animEffectPending' = (isVisible' # isVisible)
            /\ linesRendered' = rendered(isVisible')
       ELSE UNCHANGED <<isVisible, animEffectPending, linesRendered>>
  /\ UNCHANGED <<linesMounted, animationSpeed, animationPhase, pulsePhase,
                 animationIntervalRef, pulseIntervalRef, animCleanup,
                 visEffectPending, checkSubscribed, activeIntervals>>

\* the map was panned
MoveEnd ==
  \E bounds \in Views :
    /\ bounds # mapBounds
    /\ bounds.zoom = mapBounds.zoom
    /\ ViewChange(bounds)

\* the map was zoomed
ZoomEnd ==
  \E bounds \in Views :
    /\ bounds.zoom # mapBounds.zoom
    /\ ViewChange(bounds)

\* mutant: the trace callback is prev => prev + 1
TraceTick_noWrap ==
  /\ \E t \in activeIntervals : t.kind = "trace"
  /\ animationPhase' = animationPhase + 1
  /\ UNCHANGED <<linesMounted, animationSpeed, isVisible, pulsePhase,
                 animationIntervalRef, pulseIntervalRef, animCleanup,
                 visEffectPending, animEffectPending, linesRendered,
                 mapBounds, checkSubscribed, activeIntervals>>

\* the callback of the trace interval: setAnimationPhase(prev => (prev + 1) % 100)
TraceTick ==
  /\ \E t \in activeIntervals : t.kind = "trace"
  /\ animationPhase' = (animationPhase + 1) % 100
  /\ UNCHANGED <<linesMounted, animationSpeed, isVisible, pulsePhase,
                 animationIntervalRef, pulseIntervalRef, animCleanup,
                 visEffectPending, animEffectPending, linesRendered,
                 mapBounds, checkSubscribed, activeIntervals>>

\* the callback of the pulse interval: setPulsePhase(prev => (prev + 1) % 100)
PulseTick ==
  /\ \E t \in activeIntervals : t.kind = "pulse"
  /\ pulsePhase' = (pulsePhase + 1) % 100
  /\ UNCHANGED <<linesMounted, animationSpeed, isVisible, animationPhase,
                 animationIntervalRef, pulseIntervalRef, animCleanup,
                 visEffectPending, animEffectPending, linesRendered,
                 mapBounds, checkSubscribed, activeIntervals>>

\* a render with another animationSpeed prop: the animation effect is to
\* run again
SpeedChange ==
  /\ linesMounted
  /\ ~visEffectPending /\ ~animEffectPending
  /\ \E speed \in Speeds \ {animationSpeed} : animationSpeed' = speed
  /\ animEffectPending' = TRUE
  /\ UNCHANGED <<linesMounted, isVisible, animationPhase, pulsePhase,
                 animationIntervalRef, pulseIntervalRef, animCleanup,
                 visEffectPending, linesRendered, mapBounds, checkSubscribed,
                 activeIntervals>>

\* the component is unmounted: the cleanups of both effects run
LinesUnmount ==
  /\ linesMounted
  /\ ~visEffectPending /\ ~animEffectPending
  /\ LET timers == IF animCleanup THEN cleanupTimers(Timers) ELSE Timers
     IN /\ animationIntervalRef' = timers.trace
        /\ pulseIntervalRef' = timers.pulse
        /\ activeIntervals' = timers.active
  /\ linesMounted' = FALSE
  /\ checkSubscribed' = FALSE
  /\ animCleanup' = FALSE
  /\ linesRendered' = "nothing"
  /\ UNCHANGED <<animationSpeed, isVisible, animationPhase, pulsePhase,
                 visEffectPending, animEffectPending, mapBounds>>

LinesIdle ==
  /\ linesMounted = FALSE
  /\ animationSpeed = 1
  /\ isVisible = TRUE
  /\ animationPhase = 0
  /\ pulsePhase = 0
  /\ animationIntervalRef = 0
  /\ pulseIntervalRef = 0
  /\ animCleanup = FALSE
  /\ visEffectPending = FALSE
  /\ animEffectPending = FALSE
  /\ linesRendered = "nothing"
  /\ mapBounds = [name |-> "none", zoom |-> 0, south |-> 0, west |-> 0, north |-> 0, east |-> 0]
  /\ checkSubscribed = FALSE
  /\ activeIntervals = {}

\* the map bounds hold the from or the to of a selected connection
EndpointInView ==
  \E c \in Range(limitedConnections) :
    \E end \in {c.from.items, c.to.items} :
      /\ mapBounds.south <= end[1] /\ end[1] <= mapBounds.north
      /\ mapBounds.west <= end[2] /\ end[2] <= mapBounds.east

NoInterval ==
  /\ activeIntervals = {}
  /\ animationIntervalRef = 0
  /\ pulseIntervalRef = 0

IntervalsOfKind(kind) == {t \in activeIntervals : t.kind = kind}

\* C13: at any time at most one trace interval and at most one pulse
\* interval are set, each of them the one its ref holds (an interval that
\* was replaced has been cleared), and after unmount none is set.
C13_OneIntervalEach ==
  /\ Cardinality(IntervalsOfKind("trace")) <= 1
  /\ Cardinality(IntervalsOfKind("pulse")) <= 1
  /\ \A t \in IntervalsOfKind("trace") : t.id = animationIntervalRef
  /\ \A t \in IntervalsOfKind("pulse") : t.id = pulseIntervalRef
  /\ ~linesMounted => activeIntervals = {}

\* the component was unmounted after both intervals had ticked in a view
\* that shows a connection
C13_Witness ==
  /\ ~linesMounted
  /\ isVisible
  /\ animationPhase = 2
  /\ pulsePhase = 1
  /\ activeIntervals = {}

\* the value that follows v: 99 is followed by 0
NextPhase(v) == IF v = 99 THEN 0 ELSE v + 1

\* C14: animationPhase and pulsePhase are integers in 0..99 in every
\* reachable state; a step that changes one of them replaces v by the value
\* that follows v, and is taken only while an interval of that phase is set.
C14_PhasesInRange ==
  /\ [](animationPhase \in 0..99 /\ pulsePhase \in 0..99)
  /\ [][animationPhase' # animationPhase =>
          /\ animationPhase' = NextPhase(animationPhase)
          /\ IntervalsOfKind("trace") # {}
          /\ pulsePhase' = pulsePhase]_vars
  /\ [][pulsePhase' # pulsePhase =>
          /\ pulsePhase' = NextPhase(pulsePhase)
          /\ IntervalsOfKind("pulse") # {}
          /\ animationPhase' = animationPhase]_vars

\* both phases have reached their last value while the intervals are set
C14_Witness ==
  /\ linesMounted
  /\ animationPhase = 99
  /\ pulsePhase = 99
  /\ IntervalsOfKind("trace") # {}
  /\ IntervalsOfKind("pulse") # {}

-----------------------------------------------------------------------------
(* ConnectionGroup: the segments of one connection and their colours.  A   *)
(* colour string is the sequence of its characters.                        *)

\* longest short path tried besides the DEFAULT_CURVE_STEPS + 1 points of a
\* generated curve, and the largest index prop
MaxPoints == 8
MaxIndex == 8

colorPalettes ==
  [cyberpunk |->
     <<[start |-> <<"#", "0", "A", "F", "F", "F", "F">>, end |-> <<"#", "0", "0", "8", "8", "F", "F">>],
       [start |-> <<"#", "F", "F", "1", "0", "F", "0">>, end |-> <<"#", "F", "F", "0", "0", "8", "B">>],
       [start |-> <<"#", "F", "A", "F", "F", "0", "0">>, end |-> <<"#", "F", "F", "9", "9", "0", "0">>],
       [start |-> <<"#", "3", "9", "F", "F", "1", "4">>, end |-> <<"#", "0", "0", "F", "F", "8", "8">>],
       [start |-> <<"#", "F", "E", "5", "3", "B", "B">>, end |-> <<"#", "9", "9", "0", "0", "F", "F">>],
       [start |-> <<"#", "0", "0", "F", "F", "A", "3">>, end |-> <<"#", "0", "0", "C", "2", "F", "F">>],
       [start |-> <<"#", "F", "F", "2", "A", "6", "D">>, end |-> <<"#", "D", "3", "0", "0", "C", "5">>],
       [start |-> <<"#", "0", "1", "F", "F", "C", "3">>, end |-> <<"#", "0", "1", "F", "F", "F", "F">>]>>,
   monochrome |->
     <<[start |-> <<"#", "F", "F", "F", "F", "F", "F">>, end |-> <<"#", "A", "A", "A", "A", "F", "F">>],
       [start |-> <<"#", "E", "E", "E", "E", "F", "F">>, end |-> <<"#", "8", "8", "8", "8", "F", "F">>],
       [start |-> <<"#", "C", "C", "C", "C", "F", "F">>, end |-> <<"#", "6", "6", "6", "6", "F", "F">>],
       [start |-> <<"#", "A", "A", "A", "A", "F", "F">>, end |-> <<"#", "4", "4", "4", "4", "F", "F">>],
       [start |-> <<"#", "8", "8", "8", "8", "F", "F">>, end |-> <<"#", "2", "2", "2", "2", "F", "F">>]>>,
   warm |->
     <<[start |-> <<"#", "F", "F", "F", "F", "0", "0">>, end |-> <<"#", "F", "F", "8", "8", "0", "0">>],
       [start |-> <<"#", "F", "F", "A", "A", "0", "0">>, end |-> <<"#", "F", "F", "5", "5", "0", "0">>],
       [start |-> <<"#", "F", "F", "7", "7", "0", "0">>, end |-> <<"#", "F", "F", "2", "2", "0", "0">>],
       [start |-> <<"#", "F", "F", "5", "5", "0", "0">>, end |-> <<"#", "F", "F", "0", "0", "6", "6">>],
       [start |-> <<"#", "F", "F", "2", "2", "0", "0">>, end |-> <<"#", "F", "F", "0", "0", "A", "A">>]>>,
   cool |->
     <<[start |-> <<"#", "0", "0", "F", "F", "F", "F">>, end |-> <<"#", "0", "0", "8", "8", "F", "F">>],
       [start |-> <<"#", "0", "0", "C", "C", "F", "F">>, end |-> <<"#", "0", "0", "4", "4", "F", "F">>],
       [start |-> <<"#", "0", "0", "8", "8", "F", "F">>, end |-> <<"#", "0", "0", "0", "0", "F", "F">>],
       [start |-> <<"#", "0", "0", "4", "4", "F", "F">>, end |-> <<"#", "4", "4", "0", "0", "F", "F">>],
       [start |-> <<"#", "0", "0", "0", "0", "F", "F">>, end |-> <<"#", "8", "8", "0", "0", "F", "F">>]>>]

\* the palettes of the earlier version of the component
colorPalettes_earlier ==
  [cyberpunk |->
     <<[start |-> <<"#", "0", "0", "F", "F", "F", "F">>, end |-> <<"#", "0", "0", "8", "8", "F", "F">>],
       [start |-> <<"#", "F", "F", "0", "0", "F", "F">>, end |-> <<"#", "F", "F", "0", "0", "8", "8">>],
       [start |-> <<"#", "3", "9", "F", "F", "1", "4">>, end |-> <<"#", "0", "0", "F", "F", "8", "8">>],
       [start |-> <<"#", "F", "F", "6", "9", "B", "4">>, end |-> <<"#", "F", "F", "0", "0", "A", "A">>],
       [start |-> <<"#", "F", "0", "F">>, end |-> <<"#", "8", "0", "F">>]>>,
   monochrome |->
     <<[start |-> <<"#", "F", "F", "F", "F", "F", "F">>, end |-> <<"#", "A", "A", "A", "A", "F", "F">>],
       [start |-> <<"#", "E", "E", "E", "E", "F", "F">>, end |-> <<"#", "8", "8", "8", "8", "F", "F">>],
       [start |-> <<"#", "C", "C", "C", "C", "F", "F">>, end |-> <<"#", "6", "6", "6", "6", "F", "F">>],
       [start |-> <<"#", "A", "A", "A", "A", "F", "F">>, end |-> <<"#", "4", "4", "4", "4", "F", "F">>],
       [start |-> <<"#", "8", "8", "8", "8", "F", "F">>, end |-> <<"#", "2", "2", "2", "2", "F", "F">>]>>,
   warm |->
     <<[start |-> <<"#", "F", "F", "F", "F", "0", "0">>, end |-> <<"#", "F", "F", "8", "8", "0", "0">>],
       [start |-> <<"#", "F", "F", "A", "A", "0", "0">>, end |-> <<"#", "F", "F", "5", "5", "0", "0">>],
       [start |-> <<"#", "F", "F", "7", "7", "0", "0">>, end |-> <<"#", "F", "F", "2", "2", "0", "0">>],
       [start |-> <<"#", "F", "F", "5", "5", "0", "0">>, end |-> <<"#", "F", "F", "0", "0", "6", "6">>],
       [start |-> <<"#", "F", "F", "2", "2", "0", "0">>, end |-> <<"#", "F", "F", "0", "0", "A", "A">>]>>,
   cool |->
     <<[start |-> <<"#", "0", "0", "F", "F", "F", "F">>, end |-> <<"#", "0", "0", "8", "8", "F", "F">>],
       [start |-> <<"#", "0", "0", "C", "C", "F", "F">>, end |-> <<"#", "0", "0", "4", "4", "F", "F">>],
       [start |-> <<"#", "0", "0", "8", "8", "F", "F">>, end |-> <<"#", "0", "0", "0", "0", "F", "F">>],
       [start |-> <<"#", "0", "0", "4", "4", "F", "F">>, end |-> <<"#", "4", "4", "0", "0", "F", "F">>],
       [start |-> <<"#", "0", "0", "0", "0", "F", "F">>, end |-> <<"#", "8", "8", "0", "0", "F", "F">>]>>]

Versions == {"current", "earlier"}
Schemes == {"cyberpunk", "monochrome", "warm", "cool", "other"}

\* colorPalettes[colorScheme] || colorPalettes.cyberpunk
colorPalette(version, scheme) ==
  LET all == IF version = "current" THEN colorPalettes ELSE colorPalettes_earlier
  IN IF scheme \in DOMAIN all THEN all[scheme] ELSE all.cyberpunk

\* const segmentCount = 6 (4 in the earlier version)
segmentCount(version) == IF version = "current" THEN 6 ELSE 4

\* mutant: the start index is rounded up
startIdx_ceil(i, length, count) == (i * (length - 1) + count - 1) \div count

\* Math.floor(i * (positions.length - 1) / segmentCount)
startIdx(i, length, count) == (i * (length - 1)) \div count
\* Math.floor((i + 1) * (positions.length - 1) / segmentCount)
endIdx(i, length, count) == ((i + 1) * (length - 1)) \div count

\* String.prototype.slice(a, b) for 0 <= a <= b
slice(str, a, b) == SubSeq(str, a + 1, Min(b, Len(str)))

HexDigits == <<"0", "1", "2", "3", "4", "5", "6", "7", "8", "9",
               "A", "B", "C", "D", "E", "F">>
hexValue(char) == (CHOOSE d \in DOMAIN HexDigits : HexDigits[d] = char) - 1

\* parseInt(str, 16) of a string of hexadecimal digits: NaN for ""
RECURSIVE parseInt16(_)
parseInt16(str) ==
  IF str = <<>> THEN NaN
  ELSE IF Len(str) = 1 THEN hexValue(str[1])
  ELSE 16 * parseInt16(SubSeq(str, 1, Len(str) - 1)) + hexValue(str[Len(str)])

\* Math.round(c1 + (c2 - c1) * segmentPosition), segmentPosition =
\* i / (segmentCount - 1); NaN when c1 or c2 is
channel(c1, c2, i, count) ==
  IF isNaN(c1) \/ isNaN(c2) THEN NaN
  ELSE RoundDiv(c1 * (count - 1) + (c2 - c1) * i, count - 1)

\* r, g, b of segment i
segmentRGB(colorPair, i, count) ==
  [k \in 1..3 |->
     channel(parseInt16(slice(colorPair.start, 2 * k - 1, 2 * k + 1)),
             parseInt16(slice(colorPair.end, 2 * k - 1, 2 * k + 1)),
             i, count)]

\* glitchEffect: 0, or Math.floor(Math.random() * 20) - 10 when
\* Math.sin(pulsePhase / 8 + i) > 0.92, which is left open here; the
\* earlier version has no glitch effect
glitchEffects(version) == IF version = "current" THEN (0 - 10)..9 ELSE {0}

\* Math.max(0, Math.min(255, x)): NaN for NaN
clamp(x) == IF isNaN(x) THEN NaN ELSE Max(0, Min(255, x))

\* the numbers written into segmentColor
segmentColor(version, rgb, glitchEffect) ==
  IF version = "current"
    THEN [k \in 1..3 |-> IF isNaN(rgb[k]) THEN NaN ELSE clamp(rgb[k] + glitchEffect)]
    ELSE rgb

GroupInit ==
  /\ groupVersion \in Versions
  /\ groupLength \in (0..MaxPoints) \cup {DEFAULT_CURVE_STEPS + 1}
  /\ groupIndex \in 0..MaxIndex
  /\ groupScheme \in Schemes
  /\ groupI = 0
  /\ groupSegments = <<>>
  /\ groupColor = <<>>
  /\ groupReturned = FALSE

\* if (!positions || positions.length < 2) return null
GroupNothing ==
  /\ ~groupReturned
  /\ groupLength < 2
  /\ groupReturned' = TRUE
  /\ UNCHANGED <<groupVersion, groupLength, groupIndex, groupScheme, groupI,
                 groupSegments, groupColor>>

\* one iteration of the loop over the segments
GroupSegment ==
  /\ ~groupReturned
  /\ groupLength >= 2
  /\ LET count == segmentCount(groupVersion)
         start == startIdx(groupI, groupLength, count)
         end == endIdx(groupI, groupLength, count)
         palette == colorPalette(groupVersion, groupScheme)
         colorPair == palette[(groupIndex % Len(palette)) + 1]
     IN /\ IF end > start
             THEN /\ groupSegments' =
                       Append(groupSegments, [i |-> groupI, startIdx |-> start, endIdx |-> end])
                  /\ \E glitchEffect \in glitchEffects(groupVersion) :
                       groupColor' = segmentColor(groupVersion,
                                                  segmentRGB(colorPair, groupI, count),
                                                  glitchEffect)
             ELSE UNCHANGED <<groupSegments, groupColor>>
        /\ groupI' = groupI + 1
        /\ groupReturned' = (groupI + 1 = count)
  /\ UNCHANGED <<groupVersion, groupLength, groupIndex, groupScheme>>

GroupIdle ==
  /\ groupVersion = "current"
  /\ groupLength = 0
  /\ groupIndex = 0
  /\ groupScheme = "cyberpunk"
  /\ groupI = 0
  /\ groupSegments = <<>>
  /\ groupColor = <<>>
  /\ groupReturned = FALSE

\* C15: for a path of n >= 2 points the drawn segments are contiguous: the
\* first starts at index 0, each later one starts where the one before it
\* ended, the last ends at n - 1, and every pair of consecutive points lies
\* in exactly one segment.
C15_SegmentsContiguous ==
  (groupReturned /\ groupLength >= 2) =>
    /\ Len(groupSegments) >= 1
    /\ groupSegments[1].startIdx = 0
    /\ \A k \in 1..(Len(groupSegments) - 1) :
         groupSegments[k + 1].startIdx = groupSegments[k].endIdx
    /\ groupSegments[Len(groupSegments)].endIdx = groupLength - 1
    /\ \A point \in 0..(groupLength - 2) :
         Cardinality({k \in DOMAIN groupSegments :
                        /\ groupSegments[k].startIdx <= point
                        /\ point < groupSegments[k].endIdx}) = 1

\* a path of 4 points in the current version: 3 of the 6 segments are drawn
C15_Witness ==
  /\ groupReturned
  /\ groupVersion = "current"
  /\ groupLength = 4
  /\ Len(groupSegments) = 3
  /\ groupSegments[2].i = 3

\* C16 as stated: the red, green and blue channels of every segment colour
\* are integers within 0..255.  The earlier version has the 4-character
\* colours '#F0F' and '#80F' in its cyberpunk palette: slice(5, 7) of them
\* is empty and the blue channel is NaN.
C16_ChannelsInRange ==
  groupColor # <<>> => \A k \in 1..3 : groupColor[k] \in 0..255

-----------------------------------------------------------------------------
(* Specifications *)

TierNext ==
  \/ ParticleColor /\ UNCHANGED <<mapVars, statsVars, frameVars, selVars, linesVars, curveVars, groupVars>>
  \/ MarkerColor /\ UNCHANGED <<mapVars, statsVars, frameVars, selVars, linesVars, curveVars, groupVars>>
  \/ OptimisedParticleColor /\ UNCHANGED <<mapVars, statsVars, frameVars, selVars, linesVars, curveVars, groupVars>>

TierSpecInit == TierInit /\ MapIdle /\ StatsIdle /\ FrameIdle /\ SelectIdle /\ LinesIdle /\ CurveIdle /\ GroupIdle

SpecTier == TierSpecInit /\ [][TierNext]_vars

MapNext ==
  \/ ConnectionEffect /\ UNCHANGED <<tierVars, statsVars, frameVars, selVars, linesVars, curveVars, groupVars>>
  \/ MapMediaQueryChange /\ UNCHANGED <<tierVars, statsVars, frameVars, selVars, linesVars, curveVars, groupVars>>
  \/ ProjectsShrink /\ UNCHANGED <<tierVars, statsVars, frameVars, selVars, linesVars, curveVars, groupVars>>

MapSpecInit == MapInit /\ TierIdle /\ StatsIdle /\ FrameIdle /\ SelectIdle /\ LinesIdle /\ CurveIdle /\ GroupIdle

SpecMap == MapSpecInit /\ [][MapNext]_vars

StatsNext ==
  \/ StatsRender /\ UNCHANGED <<tierVars, mapVars, frameVars, selVars, linesVars, curveVars, groupVars>>
  \/ StatsReset /\ UNCHANGED <<tierVars, mapVars, frameVars, selVars, linesVars, curveVars, groupVars>>

StatsSpecInit == StatsInit /\ TierIdle /\ MapIdle /\ FrameIdle /\ SelectIdle /\ LinesIdle /\ CurveIdle /\ GroupIdle

SpecStats == StatsSpecInit /\ [][StatsNext]_vars

FrameNext ==
  \/ HexAnimate /\ UNCHANGED <<tierVars, mapVars, statsVars, selVars, linesVars, curveVars, groupVars>>
  \/ ParticleAnimate /\ UNCHANGED <<tierVars, mapVars, statsVars, selVars, linesVars, curveVars, groupVars>>
  \/ OptimisedAnimate /\ UNCHANGED <<tierVars, mapVars, statsVars, selVars, linesVars, curveVars, groupVars>>
  \/ FrameEffectRestart /\ UNCHANGED <<tierVars, mapVars, statsVars, selVars, linesVars, curveVars, groupVars>>

FrameSpecInit == FrameInit /\ TierIdle /\ MapIdle /\ StatsIdle /\ SelectIdle /\ LinesIdle /\ CurveIdle /\ GroupIdle

SpecFrame == FrameSpecInit /\ [][FrameNext]_vars

\* the selection of ConnectionLines alone, over many connection lists
SelectNext ==
  \/ SelectRender /\ UNCHANGED <<tierVars, mapVars, statsVars, frameVars, linesVars, curveVars, groupVars>>
  \/ SelectLimitChange /\ UNCHANGED <<tierVars, mapVars, statsVars, frameVars, linesVars, curveVars, groupVars>>

SelectSpecInit == SelectInit /\ TierIdle /\ MapIdle /\ StatsIdle /\ FrameIdle /\ LinesIdle /\ CurveIdle /\ GroupIdle

SpecSelect == SelectSpecInit /\ [][SelectNext]_vars

\* one mounted ConnectionLines on a map that is panned and zoomed
LinesNext ==
  \/ FlushPassiveEffects /\ UNCHANGED <<tierVars, mapVars, statsVars, frameVars, selVars, curveVars, groupVars>>
  \/ MoveEnd /\ UNCHANGED <<tierVars, mapVars, statsVars, frameVars, selVars, curveVars, groupVars>>
  \/ ZoomEnd /\ UNCHANGED <<tierVars, mapVars, statsVars, frameVars, selVars, curveVars, groupVars>>
  \/ TraceTick /\ UNCHANGED <<tierVars, mapVars, statsVars, frameVars, selVars, curveVars, groupVars>>
  \/ PulseTick /\ UNCHANGED <<tierVars, mapVars, statsVars, frameVars, selVars, curveVars, groupVars>>
  \/ SpeedChange /\ UNCHANGED <<tierVars, mapVars, statsVars, frameVars, selVars, curveVars, groupVars>>
  \/ LinesUnmount /\ UNCHANGED <<tierVars, mapVars, statsVars, frameVars, selVars, curveVars, groupVars>>

LinesSpecInit == LinesInit /\ TierIdle /\ MapIdle /\ StatsIdle /\ FrameIdle /\ CurveIdle /\ GroupIdle

SpecLines == LinesSpecInit /\ [][LinesNext]_vars

\* single calls of generateCurvedPath
CurveNext ==
  CurveCall /\ UNCHANGED <<tierVars, mapVars, statsVars, frameVars, selVars, linesVars, groupVars>>

CurveSpecInit ==
  /\ CurveInit /\ TierIdle /\ MapIdle /\ StatsIdle /\ FrameIdle /\ SelectIdle
  /\ LinesIdle /\ GroupIdle

SpecCurve == CurveSpecInit /\ [][CurveNext]_vars

\* single renders of ConnectionGroup
GroupNext ==
  \/ GroupNothing /\ UNCHANGED <<tierVars, mapVars, statsVars, frameVars, selVars,
                                 linesVars, curveVars>>
  \/ GroupSegment /\ UNCHANGED <<tierVars, mapVars, statsVars, frameVars, selVars,
                                 linesVars, curveVars>>

GroupSpecInit ==
  /\ GroupInit /\ TierIdle /\ MapIdle /\ StatsIdle /\ FrameIdle /\ SelectIdle
  /\ LinesIdle /\ CurveIdle

SpecGroup == GroupSpecInit /\ [][GroupNext]_vars

=============================================================================
